---- MODULE Spec2Model ----
(***************************************************************************)
(* Multipart upload of one local file to S3 ("stitch").                    *)
(*                                                                         *)
(* The repository holds three programs with the same protocol:             *)
(*   "main.go"   src/main.go            flags warn only, inline loop       *)
(*   "part_000"  src/unnamed/part_000   flags exit, loop in uploadParts    *)
(*   "part_001"  src/unnamed/part_001   no -chunkSize flag, 5 MiB buffer   *)
(* One run of one of them is one behaviour of this module; prog says which.*)
(*                                                                         *)
(* Sizes are counted in units of Ki*Ki bytes (Ki stands for 1024), so the  *)
(* 5 MiB minimum is 5 units at Ki = 1.  The file holds the bytes 1, 2, ... *)
(* so that every byte names its own offset; a fresh buffer holds zeros.    *)
(* f.Read on the regular local file fills the buffer unless fewer bytes    *)
(* remain.                                                                 *)
(***************************************************************************)
EXTENDS Integers, Sequences, FiniteSets, TLC

VARIABLES prog, bucket, key, filePath, chunkSize, file,
          cfg, pc, f, cursor, buffer, n, partNum, completedParts, uploadID,
          err, calls, out, exit

inputs == <<prog, bucket, key, filePath, chunkSize, file>>
vars == <<prog, bucket, key, filePath, chunkSize, file,
          cfg, pc, f, cursor, buffer, n, partNum, completedParts, uploadID,
          err, calls, out, exit>>

(* ----------------------------- bounds --------------------------------- *)
Ki == 1
MaxFileSize == 11

Programs == {"main.go", "part_000", "part_001"}
Names == {"", "x"}
Buckets == {"", "b"}
Keys == {"", "k"}
UploadIds == {"u1", "u2"}
ETags == {"e1", "e2"}

(* --------------------------- constants -------------------------------- *)
defaultChunkSize == 15 * Ki * Ki
minimumChunkSize == 5 * Ki * Ki
fixedBufferSize == 5 * Ki * Ki

ChunkSizes == {0 - 1, 0, minimumChunkSize - 1, minimumChunkSize, defaultChunkSize}

(* ---------------------------- helpers --------------------------------- *)
Min(a, b) == IF a < b THEN a ELSE b

\* the largest int32: partNum++ wraps from it to the smallest
MaxInt32 == 2147483647

NoErr == [msg |-> <<>>, part |-> 0, cause |-> ""]

Error(m, p, c) == [msg |-> m, part |-> p, cause |-> c]

\* one line written to the operator: stdout (fmt.Print*) or the log (log.Fatal*)
Line(s, m, p, c) == [stream |-> s, msg |-> m, part |-> p, cause |-> c]

\* part_000 copies the flags into cfg and passes &cfg.bucket, &cfg.key to
\* every request but CompleteMultipartUpload, which gets the flag pointers
FromCfg(o) == prog = "part_000" /\ o # "CompleteMultipartUpload"

\* one request sent to the S3 client, with the error it returned ("" = nil)
\* and the value it returned (UploadId of a create, ETag of a part upload)
Call_KeyAsBucket(o, id, pn, body, parts, e, r) ==
    [op |-> o,
     Bucket |-> IF FromCfg(o) THEN cfg.bucket
                ELSE IF o = "CompleteMultipartUpload" THEN key ELSE bucket,
     Key |-> IF FromCfg(o) THEN cfg.key ELSE key,
     UploadId |-> id, PartNumber |-> pn, Body |-> body, Parts |-> parts,
     err |-> e, resp |-> r]
Call(o, id, pn, body, parts, e, r) ==
    [op |-> o,
     Bucket |-> IF FromCfg(o) THEN cfg.bucket ELSE bucket,
     Key |-> IF FromCfg(o) THEN cfg.key ELSE key,
     UploadId |-> id, PartNumber |-> pn, Body |-> body, Parts |-> parts,
     err |-> e, resp |-> r]

\* the zero UploadConfiguration, and the one built from the flags
NoCfg == [bucket |-> "", key |-> "", filePath |-> "", chunkSize |-> 0]

UploadConfiguration ==
    [bucket |-> bucket, key |-> key, filePath |-> filePath, chunkSize |-> chunkSize]

\* the path handed to os.Open
OpenPath == IF prog = "part_000" THEN cfg.filePath ELSE filePath

\* the size of the read buffer
BufferSize ==
    IF prog = "part_001" THEN fixedBufferSize
    ELSE IF prog = "part_000" THEN cfg.chunkSize
    ELSE chunkSize

\* the loop header: the next f.Read starts when the previous iteration is over
CanRead_Overlapped == pc \in {"read", "inflight"}
CanRead == pc = "read"

\* if n == 0 { break }
LoopEnds_Negative(cnt) == cnt < 0
LoopEnds(cnt) == cnt = 0

\* the file offset after a read of cnt bytes
Advance_Stuck(c, cnt) == c
Advance(c, cnt) == c + cnt

\* Body: bytes.NewReader(buffer[:n])
Body_OffByOne(buf, cnt) == SubSeq(buf, 1, cnt - 1)
Body(buf, cnt) == SubSeq(buf, 1, cnt)

\* types.CompletedPart{ETag: partResp.ETag, PartNumber: aws.Int32(pn)}
CompletedPart_NoETag(etag, pn) == [ETag |-> "", PartNumber |-> pn]
CompletedPart(etag, pn) == [ETag |-> etag, PartNumber |-> pn]

\* make([]byte, size): a zeroed slice (size >= 0)
Make(size) == [i \in 1..size |-> 0]

\* deferred f.Close() runs when the surrounding function returns or panics
RunDeferred(h) == IF h = "open" THEN "closed" ELSE h

\* os.Exit / log.Fatal* end the process without running deferred calls
OsExit(h) == h

\* sort.Slice(completedParts, less by PartNumber), as an insertion sort
RECURSIVE Insert(_, _)
Insert(p, s) ==
    IF s = <<>> THEN <<p>>
    ELSE IF p.PartNumber < Head(s).PartNumber THEN <<p>> \o s
    ELSE <<Head(s)>> \o Insert(p, Tail(s))

RECURSIVE SortByPartNumber(_)
SortByPartNumber(s) ==
    IF s = <<>> THEN <<>>
    ELSE Insert(s[Len(s)], SortByPartNumber(SubSeq(s, 1, Len(s) - 1)))

\* partNum++
NextPartNum_Stuck(p) == p
NextPartNum_Skip(p) == p + 2
NextPartNum(p) == IF p = MaxInt32 THEN (0 - MaxInt32) - 1 ELSE p + 1

\* the result of AbortMultipartUpload is discarded: _, _ = client.Abort...
AbortWarning_Logged(abortErr) ==
    IF abortErr = "" THEN <<>>
    ELSE <<Line("log", <<"failed to abort multipart upload">>, 0, abortErr)>>
AbortWarning(abortErr) == <<>>

\* the %v argument of the log.Fatalf that follows the abort
FatalCause_Masked(e, abortErr) == IF abortErr = "" THEN e.cause ELSE abortErr
FatalCause(e, abortErr) == e.cause

\* the text of the log.Fatalf that follows the abort
FatalMsg_Generic(e) ==
    IF prog = "part_000" THEN <<"failed to upload parts">> ELSE e.msg
FatalMsg(e) ==
    IF prog = "part_000" THEN <<"failed to upload parts">> \o e.msg ELSE e.msg

(* ------------------------------ Init ---------------------------------- *)
Init ==
    /\ prog \in Programs
    /\ bucket \in Buckets
    /\ key \in Keys
    /\ filePath \in Names
    /\ chunkSize \in (IF prog = "part_001" THEN {fixedBufferSize} ELSE ChunkSizes)
    /\ \E S \in 0..MaxFileSize : file = [i \in 1..S |-> i % 256]
    /\ cfg = NoCfg
    /\ pc = "flags"
    /\ f = "unopened"
    /\ cursor = 0
    /\ buffer = <<>>
    /\ n = 0
    /\ partNum = 0
    /\ completedParts = <<>>
    /\ uploadID = ""
    /\ err = NoErr
    /\ calls = <<>>
    /\ out = <<>>
    /\ exit = "running"

\* log.Fatalf / os.Exit(1) after writing the lines ls
Die(ls) ==
    /\ out' = out \o ls
    /\ pc' = "done"
    /\ exit' = "exit1"
    /\ f' = OsExit(f)

(* ------------------------------ steps --------------------------------- *)
\* flag.Parse() and the two validations
ParseFlags ==
    /\ pc = "flags"
    /\ LET missing == bucket = "" \/ key = "" \/ filePath = ""
           small == chunkSize < minimumChunkSize
           usage == <<Line("stdout", <<"bucket, key, and file must all be provided">>, 0, "ConfigErr")>>
           tooSmall == <<Line("stdout", <<"chunkSize must be greater than">>, 0, "ConfigErr")>>
       IN  \/ /\ prog = "main.go"
              /\ out' = out \o (IF missing THEN usage ELSE <<>>)
                            \o (IF small THEN tooSmall ELSE <<>>)
              /\ pc' = "client"
              /\ UNCHANGED <<f, exit, cfg>>
           \/ /\ prog = "part_000"
              /\ IF missing THEN Die(usage) /\ cfg' = cfg
                 ELSE IF small THEN Die(tooSmall) /\ cfg' = cfg
                 ELSE /\ cfg' = UploadConfiguration
                      /\ pc' = "client"
                      /\ UNCHANGED <<out, f, exit>>
           \/ /\ prog = "part_001"
              /\ cfg' = cfg
              /\ IF missing
                 THEN Die(<<Line("log", <<"bucket, key, and file must all be provided">>, 0, "ConfigErr")>>)
                 ELSE /\ pc' = "client"
                      /\ UNCHANGED <<out, f, exit>>
    /\ UNCHANGED <<inputs, cursor, buffer, n, partNum, completedParts, uploadID, err, calls>>

\* config.LoadDefaultConfig + s3.NewFromConfig
InitializeClient ==
    /\ pc = "client"
    /\ \E ok \in BOOLEAN :
        IF ok
        THEN /\ pc' = IF prog = "part_000" THEN "create" ELSE "open"
             /\ UNCHANGED <<out, f, exit>>
        ELSE Die(<<Line("log", <<"unable to load SDK config">>, 0, "ClientErr")>>)
    /\ UNCHANGED <<inputs, cfg, cursor, buffer, n, partNum, completedParts, uploadID, err, calls>>

\* partNum := 1; buffer := make(...); var completedParts -- or the panic of
\* make on a negative length, which unwinds through the deferred Close
EnterLoop(h) ==
    IF BufferSize < 0
    THEN /\ pc' = "done"
         /\ exit' = "panic"
         /\ f' = RunDeferred(h)
         /\ UNCHANGED <<partNum, buffer, completedParts>>
    ELSE /\ pc' = "read"
         /\ exit' = exit
         /\ f' = h
         /\ partNum' = 1
         /\ buffer' = Make(BufferSize)
         /\ completedParts' = <<>>

\* os.Open(filePath)
OpenFile ==
    /\ pc = "open"
    /\ \E ok \in BOOLEAN :
        /\ OpenPath = "" => ~ok
        /\ IF ok
           THEN IF prog = "part_000"
                THEN /\ EnterLoop("open")
                     /\ UNCHANGED <<out, err>>
                ELSE /\ f' = "open"
                     /\ pc' = "create"
                     /\ UNCHANGED <<out, exit, err, partNum, buffer, completedParts>>
           ELSE IF prog = "part_000"
                THEN /\ err' = Error(<<"failed to open file">>, 0, "OpenErr")
                     /\ pc' = "abort"
                     /\ UNCHANGED <<out, exit, f, partNum, buffer, completedParts>>
                ELSE /\ Die(<<Line("log", <<"failed to open file">>, 0, "OpenErr")>>)
                     /\ UNCHANGED <<err, partNum, buffer, completedParts>>
    /\ UNCHANGED <<inputs, cfg, cursor, n, uploadID, calls>>

\* 1. Initiate multipart upload (mutant: the error of the create is ignored)
CreateMultipartUpload_IgnoreError ==
    /\ pc = "create"
    /\ \E ok \in BOOLEAN, id \in UploadIds :
        /\ calls' = Append(calls, Call("CreateMultipartUpload", "", 0, <<>>, <<>>,
                                       IF ok THEN "" ELSE "CreateErr",
                                       IF ok THEN id ELSE ""))
        /\ ~ok => id = "u1"
        /\ uploadID' = IF ok THEN id ELSE ""
        /\ out' = out \o <<Line("stdout", <<"Upload ID">>, 0, "")>>
        /\ IF prog = "part_000"
           THEN /\ pc' = "open"
                /\ UNCHANGED <<exit, f, partNum, buffer, completedParts>>
           ELSE EnterLoop(f)
    /\ UNCHANGED <<inputs, cfg, cursor, n, err>>

\* 1. Initiate multipart upload
CreateMultipartUpload ==
    /\ pc = "create"
    /\ \E ok \in BOOLEAN, id \in UploadIds :
        /\ calls' = Append(calls, Call("CreateMultipartUpload", "", 0, <<>>, <<>>,
                                       IF ok THEN "" ELSE "CreateErr",
                                       IF ok THEN id ELSE ""))
        /\ IF ok
           THEN /\ uploadID' = id
                /\ out' = out \o <<Line("stdout", <<"Upload ID">>, 0, "")>>
                /\ IF prog = "part_000"
                   THEN /\ pc' = "open"
                        /\ UNCHANGED <<exit, f, partNum, buffer, completedParts>>
                   ELSE EnterLoop(f)
           ELSE /\ id = "u1"
                /\ Die(<<Line("log", <<"failed to create multipart upload">>, 0, "CreateErr")>>)
                /\ UNCHANGED <<uploadID, partNum, buffer, completedParts>>
    /\ UNCHANGED <<inputs, cfg, cursor, n, err>>

\* n, err := f.Read(buffer), the two checks after it, and on n == 0 the
\* break, the sort and (part_000) the return of uploadParts
ReadChunk ==
    /\ CanRead
    /\ \E fail \in BOOLEAN :
        /\ fail => Len(buffer) > 0
        /\ LET cnt == IF fail THEN 0 ELSE Min(Len(buffer), Len(file) - cursor)
           IN  IF fail
               THEN IF prog = "part_000"
                    THEN /\ err' = Error(<<"failed to read file">>, 0, "ReadErr")
                         /\ f' = RunDeferred(f)
                         /\ pc' = "abort"
                         /\ UNCHANGED <<out, exit, buffer, cursor, n, completedParts>>
                    ELSE /\ Die(<<Line("log", <<"failed to read file">>, 0, "ReadErr")>>)
                         /\ UNCHANGED <<err, buffer, cursor, n, completedParts>>
               ELSE IF LoopEnds(cnt)
                    THEN /\ completedParts' = SortByPartNumber(completedParts)
                         /\ f' = IF prog = "part_000" THEN RunDeferred(f) ELSE f
                         /\ n' = 0
                         /\ pc' = "complete"
                         /\ UNCHANGED <<out, exit, err, buffer, cursor>>
                    ELSE /\ buffer' = [i \in 1..Len(buffer) |->
                                          IF i <= cnt THEN file[cursor + i] ELSE buffer[i]]
                         /\ cursor' = Advance(cursor, cnt)
                         /\ n' = cnt
                         /\ pc' = "upload"
                         /\ UNCHANGED <<out, exit, err, f, completedParts>>
    /\ UNCHANGED <<inputs, cfg, partNum, uploadID, calls>>

\* client.UploadPart is entered: the request, whose body is a reader over
\* buffer[:n], is with the client until the call returns
StartUploadPart ==
    /\ pc = "upload"
    /\ pc' = "inflight"
    /\ UNCHANGED <<inputs, cfg, f, cursor, buffer, n, partNum, completedParts,
                   uploadID, err, calls, out, exit>>

\* 2. Upload each part (mutant: a failed part is skipped and the loop goes on)
UploadPart_ContinueOnError ==
    /\ pc = "inflight"
    /\ \E ok \in BOOLEAN, etag \in ETags :
        /\ calls' = Append(calls, Call("UploadPart", uploadID, partNum,
                                       Body(buffer, n), <<>>,
                                       IF ok THEN "" ELSE "UploadErr",
                                       IF ok THEN etag ELSE ""))
        /\ IF ok
           THEN /\ out' = out \o <<Line("stdout", <<"Uploaded part">>, partNum, etag)>>
                /\ completedParts' = Append(completedParts,
                                            CompletedPart(etag, partNum))
           ELSE /\ etag = "e1"
                /\ UNCHANGED <<out, completedParts>>
        /\ partNum' = NextPartNum(partNum)
        /\ pc' = "read"
        /\ UNCHANGED <<err, f>>
    /\ UNCHANGED <<inputs, cfg, cursor, buffer, n, uploadID, exit>>

\* 2. Upload each part: the call returns, and what follows it
UploadPart ==
    /\ pc = "inflight"
    /\ \E ok \in BOOLEAN, etag \in ETags :
        /\ calls' = Append(calls, Call("UploadPart", uploadID, partNum,
                                       Body(buffer, n), <<>>,
                                       IF ok THEN "" ELSE "UploadErr",
                                       IF ok THEN etag ELSE ""))
        /\ IF ok
           THEN /\ out' = out \o <<Line("stdout", <<"Uploaded part">>, partNum, etag)>>
                /\ completedParts' = Append(completedParts,
                                            CompletedPart(etag, partNum))
                /\ partNum' = NextPartNum(partNum)
                /\ pc' = "read"
                /\ UNCHANGED <<err, f>>
           ELSE /\ etag = "e1"
                /\ err' = Error(<<"failed to upload part">>, partNum, "UploadErr")
                /\ f' = IF prog = "part_000" THEN RunDeferred(f) ELSE f
                /\ pc' = "abort"
                /\ UNCHANGED <<out, completedParts, partNum>>
    /\ UNCHANGED <<inputs, cfg, cursor, buffer, n, uploadID, exit>>

\* Abort on failure, then log.Fatalf with the error that led here
AbortMultipartUpload ==
    /\ pc = "abort"
    /\ \E ok \in BOOLEAN :
        LET abortErr == IF ok THEN "" ELSE "AbortErr"
        IN  /\ calls' = Append(calls, Call("AbortMultipartUpload", uploadID, 0,
                                           <<>>, <<>>, abortErr, ""))
            /\ Die(AbortWarning(abortErr)
                   \o <<Line("log", FatalMsg(err), err.part, FatalCause(err, abortErr))>>)
    /\ UNCHANGED <<inputs, cfg, cursor, buffer, n, partNum, completedParts, uploadID, err>>

\* 3. Complete the upload (mutant: a failed completion aborts the session)
CompleteMultipartUpload_AbortOnError ==
    /\ pc = "complete"
    /\ \E ok \in BOOLEAN :
        /\ calls' = Append(calls, Call("CompleteMultipartUpload", uploadID, 0, <<>>,
                                       completedParts,
                                       IF ok THEN "" ELSE "CompleteErr", ""))
        /\ IF ok
           THEN /\ out' = out \o <<Line("stdout", <<"Upload completed successfully!">>, 0, "")>>
                /\ pc' = "done"
                /\ exit' = "returned"
                /\ f' = RunDeferred(f)
                /\ err' = err
           ELSE /\ err' = Error(<<"failed to complete multipart upload">>, 0, "CompleteErr")
                /\ pc' = "abort"
                /\ UNCHANGED <<out, exit, f>>
    /\ UNCHANGED <<inputs, cfg, cursor, buffer, n, partNum, completedParts, uploadID>>

\* 3. Complete the upload
CompleteMultipartUpload ==
    /\ pc = "complete"
    /\ \E ok \in BOOLEAN :
        /\ calls' = Append(calls, Call("CompleteMultipartUpload", uploadID, 0, <<>>,
                                       completedParts,
                                       IF ok THEN "" ELSE "CompleteErr", ""))
        /\ IF ok
           THEN /\ out' = out \o <<Line("stdout", <<"Upload completed successfully!">>, 0, "")>>
                /\ pc' = "done"
                /\ exit' = "returned"
                /\ f' = RunDeferred(f)
           ELSE Die(<<Line("log", <<"failed to complete multipart upload">>, 0, "CompleteErr")>>)
    /\ UNCHANGED <<inputs, cfg, cursor, buffer, n, partNum, completedParts, uploadID, err>>

Next ==
    \/ ParseFlags
    \/ InitializeClient
    \/ OpenFile
    \/ CreateMultipartUpload
    \/ ReadChunk
    \/ StartUploadPart
    \/ UploadPart
    \/ AbortMultipartUpload
    \/ CompleteMultipartUpload

Spec == Init /\ [][Next]_vars

\* the program is sequential and every collaborator call returns: a run that
\* can take a step takes it
FairSpec == Spec /\ WF_vars(Next)

(* ------------------------- observation helpers ------------------------ *)
Idx(o) == {i \in 1..Len(calls) : calls[i].op = o}

Issued(o) == Idx(o) # {}

Ended == exit # "running"

\* the body handed to UploadPart for part number k
Payload(k) == calls[CHOOSE i \in Idx("UploadPart") : calls[i].PartNumber = k].Body

RECURSIVE ConcatPayloads(_)
ConcatPayloads(k) == IF k = 0 THEN <<>> ELSE ConcatPayloads(k - 1) \o Payload(k)

Lines(c) == {i \in 1..Len(out) : out[i].cause = c}

(* ------------------------------ claims -------------------------------- *)

\* C1: once UploadPart has failed for part k, no UploadPart call carries a
\* number above k, the run is aborting or over, CompleteMultipartUpload is
\* never issued, and a run that has ended has issued AbortMultipartUpload for
\* the session after the failed call.
C1_FailedPartStopsLoopAndAborts ==
    \A i \in Idx("UploadPart") :
        calls[i].err # "" =>
            /\ \A j \in Idx("UploadPart") : calls[j].PartNumber <= calls[i].PartNumber
            /\ pc \in {"abort", "done"}
            /\ ~Issued("CompleteMultipartUpload")
            /\ Ended => \E j \in Idx("AbortMultipartUpload") :
                            j > i /\ calls[j].UploadId = uploadID

C1_Witness ==
    /\ Ended
    /\ cursor < Len(file)
    /\ \E i \in Idx("UploadPart") : calls[i].err # "" /\ calls[i].PartNumber = 2
    /\ Issued("AbortMultipartUpload")

\* C2: the manifest handed to CompleteMultipartUpload lists the part numbers
\* 1, 2, ..., N in this order, N being the number of UploadPart calls of the
\* run.
C2_ManifestIsOneToN ==
    \A i \in Idx("CompleteMultipartUpload") :
        /\ Len(calls[i].Parts) = Cardinality(Idx("UploadPart"))
        /\ \A k \in 1..Len(calls[i].Parts) : calls[i].Parts[k].PartNumber = k

C2_Witness ==
    \E i \in Idx("CompleteMultipartUpload") : Len(calls[i].Parts) = 3

\* C3: a run that ends on a failed open or read of the file after the session
\* was created has issued AbortMultipartUpload for that session.
C3_FileFailureAbortsSession ==
    (Ended /\ uploadID # "" /\ (Lines("OpenErr") \cup Lines("ReadErr")) # {})
        => \E j \in Idx("AbortMultipartUpload") : calls[j].UploadId = uploadID

\* C4: when the part loop has ended without a failed read or upload, the
\* number of UploadPart calls is ceil(S / C) for a file of S > 0 bytes and a
\* chunk size C, and 0 for an empty file.
C4_PartCountIsCeiling ==
    (pc = "complete" \/ Issued("CompleteMultipartUpload")) =>
        LET S == Len(file)
            C == BufferSize
            N == Cardinality(Idx("UploadPart"))
        IN  IF S = 0 THEN N = 0
            ELSE C > 0 /\ N = (S + C - 1) \div C

\* C5: when CompleteMultipartUpload is issued, the payloads of parts 1..N
\* concatenated in part-number order are the bytes of the file.
C5_PayloadsRebuildFile ==
    Issued("CompleteMultipartUpload") =>
        ConcatPayloads(Cardinality(Idx("UploadPart"))) = file

\* C6: a failed CompleteMultipartUpload is the last call of the run: the run
\* has ended with exit status 1, its last line reports the completion failure,
\* no AbortMultipartUpload is issued and the completion is not issued again.
C6_FailedCompletionLeavesSessionOpen ==
    \A i \in Idx("CompleteMultipartUpload") :
        calls[i].err # "" =>
            /\ i = Len(calls)
            /\ exit = "exit1"
            /\ out[Len(out)].cause = "CompleteErr"
            /\ ~Issued("AbortMultipartUpload")
            /\ Cardinality(Idx("CompleteMultipartUpload")) = 1

C6_Witness ==
    /\ Ended
    /\ \E i \in Idx("CompleteMultipartUpload") :
          calls[i].err # "" /\ Len(calls[i].Parts) >= 2

\* C7: no run ends with the file handle opened and not closed.
C7_HandleClosedOnEveryExit ==
    Ended => f # "open"

\* C8: with a required flag missing or the chunk size below the minimum, the
\* run ends at the validation: no CreateMultipartUpload call, no file opened.
C8_ConfigErrorEndsRunBeforeSession ==
    ((bucket = "" \/ key = "" \/ filePath = "" \/ chunkSize < minimumChunkSize)
      /\ pc # "flags")
        => /\ Ended
           /\ ~Issued("CreateMultipartUpload")
           /\ f = "unopened"

\* C9: after AbortMultipartUpload, whatever it returned, the failure the run
\* reports is the one that led to the abort: the last line is the fatal log
\* line with the cause (and part number) of the original error, and no line
\* carries the abort's own error in its place.
C9_OriginalFailureReported ==
    \A i \in Idx("AbortMultipartUpload") :
        LET last == out[Len(out)]
        IN  /\ exit = "exit1"
            /\ last.stream = "log"
            /\ last.cause \in {"OpenErr", "ReadErr", "UploadErr"}
            /\ last.cause = err.cause
            /\ last.part = err.part
            /\ (i > 1 /\ calls[i - 1].op = "UploadPart" /\ calls[i - 1].err # "") =>
                   /\ last.cause = calls[i - 1].err
                   /\ last.part = calls[i - 1].PartNumber

C9_Witness ==
    /\ Ended
    /\ \E i \in Idx("AbortMultipartUpload") : calls[i].err = "AbortErr"
    /\ \E i \in Idx("UploadPart") : calls[i].err # ""

NoFailure ==
    /\ exit # "panic"
    /\ \A i \in 1..Len(calls) : calls[i].err = ""
    /\ \A i \in 1..Len(out) : out[i].stream # "log"

\* C11: for a 0-byte file no UploadPart call is ever issued and a completion
\* call carries the empty manifest; a run that created its session and ended
\* with no failure has issued CompleteMultipartUpload exactly once and no
\* AbortMultipartUpload.
C11_EmptyFileCompletesWithEmptyManifest ==
    Len(file) = 0 =>
        /\ ~Issued("UploadPart")
        /\ \A i \in Idx("CompleteMultipartUpload") : calls[i].Parts = <<>>
        /\ Cardinality(Idx("CompleteMultipartUpload")) <= 1
        /\ (Ended /\ uploadID # "" /\ NoFailure) =>
               /\ Cardinality(Idx("CompleteMultipartUpload")) = 1
               /\ ~Issued("AbortMultipartUpload")

C11_Witness ==
    /\ Len(file) = 0
    /\ exit = "returned"
    /\ \E i \in Idx("CompleteMultipartUpload") : calls[i].Parts = <<>>

\* the words with which a failure of each phase is reported
PhaseText(c) ==
    CASE c = "CreateErr" -> "failed to create multipart upload"
      [] c = "ReadErr" -> "failed to read file"
      [] c = "UploadErr" -> "failed to upload part"
      [] c = "CompleteErr" -> "failed to complete multipart upload"
      [] OTHER -> ""

Phases == {"CreateErr", "ReadErr", "UploadErr", "CompleteErr"}

Contains(m, t) == \E i \in 1..Len(m) : m[i] = t

\* C12: a run that exits with status 1 ends its output with the report of
\* its failure; a logged failure of the create, read, upload or complete phase
\* carries the words of that phase; and the report of a run in which a
\* create, part upload or complete call failed names that call's error, its
\* phase and, for a part upload, the number of the part.
C12_FailureNamesPhase ==
    /\ exit = "exit1" => (out # <<>> /\ out[Len(out)].cause # "")
    /\ \A i \in 1..Len(out) :
           (out[i].stream = "log" /\ out[i].cause \in Phases) =>
               Contains(out[i].msg, PhaseText(out[i].cause))
    /\ Ended =>
           \A i \in 1..Len(calls) :
               (calls[i].op # "AbortMultipartUpload" /\ calls[i].err # "") =>
                   LET last == out[Len(out)]
                   IN  /\ last.stream = "log"
                       /\ last.cause = calls[i].err
                       /\ Contains(last.msg, PhaseText(calls[i].err))
                       /\ calls[i].op = "UploadPart" => last.part = calls[i].PartNumber

C12_Witness ==
    /\ Ended
    /\ prog = "part_000"
    /\ \E i \in Idx("UploadPart") : calls[i].err # "" /\ calls[i].PartNumber = 2

\* C13: once the session is created, CompleteMultipartUpload and
\* AbortMultipartUpload together are issued at most once, the completion only
\* when no read and no part upload failed, and a run that has ended has issued
\* one of the two.
C13_OneTerminalCall ==
    uploadID # "" =>
        /\ Cardinality(Idx("CompleteMultipartUpload"))
             + Cardinality(Idx("AbortMultipartUpload")) <= 1
        /\ Issued("CompleteMultipartUpload") =>
               /\ Lines("ReadErr") = {}
               /\ \A i \in Idx("UploadPart") : calls[i].err = ""
        /\ Ended => (Issued("CompleteMultipartUpload") \/ Issued("AbortMultipartUpload"))

\* C14: the k-th UploadPart call of a run carries part number k: the first
\* carries 1, each later one the number before it plus 1, none is used twice.
C14_PartNumbersCountCalls ==
    \A i \in Idx("UploadPart") :
        calls[i].PartNumber = Cardinality({j \in Idx("UploadPart") : j <= i})

C14_Witness ==
    /\ Cardinality(Idx("UploadPart")) = 3
    /\ \E i \in Idx("UploadPart") : calls[i].PartNumber = 3

C16_ManifestCarriesReturnedETags ==
    \A i \in Idx("CompleteMultipartUpload") :
        LET P == calls[i].Parts
            Ok == {j \in Idx("UploadPart") : calls[j].err = ""}
        IN  /\ Len(P) = Cardinality(Ok)
            /\ \A j \in Ok :
                   LET at == {k \in 1..Len(P) : P[k].PartNumber = calls[j].PartNumber}
                   IN  /\ Cardinality(at) = 1
                       /\ \A k \in at : P[k].ETag = calls[j].resp

C16_Witness ==
    \E i \in Idx("CompleteMultipartUpload") :
        /\ Len(calls[i].Parts) = 2
        /\ calls[i].Parts[1].ETag = "e2"
        /\ calls[i].Parts[2].ETag = "e1"

\* the calls that need a session
SessionCalls ==
    Idx("UploadPart") \cup Idx("CompleteMultipartUpload") \cup Idx("AbortMultipartUpload")

\* C17: every UploadPart, CompleteMultipartUpload and AbortMultipartUpload
\* call comes after a CreateMultipartUpload call that succeeded, and a run
\* whose CreateMultipartUpload failed has ended with no other call.
C17_NoSessionCallBeforeCreate ==
    /\ \A i \in SessionCalls :
           \E j \in Idx("CreateMultipartUpload") : j < i /\ calls[j].err = ""
    /\ \A j \in Idx("CreateMultipartUpload") :
           calls[j].err # "" => (Ended /\ Len(calls) = 1)

C17_Witness ==
    /\ Ended
    /\ \E j \in Idx("CreateMultipartUpload") : calls[j].err # ""
    /\ f = "open"

\* C18: every UploadPart, CompleteMultipartUpload and AbortMultipartUpload
\* call carries the bucket and key of the run's CreateMultipartUpload call,
\* which are those of the flags, and the upload id that call returned.
C18_SameBucketKeySession ==
    \A i \in SessionCalls :
        \E j \in Idx("CreateMultipartUpload") :
            /\ calls[j].err = ""
            /\ calls[i].Bucket = calls[j].Bucket
            /\ calls[i].Key = calls[j].Key
            /\ calls[i].UploadId = calls[j].resp
            /\ calls[i].Bucket = bucket
            /\ calls[i].Key = key

C18_Witness ==
    /\ prog = "part_000"
    /\ Cardinality(Idx("UploadPart")) = 2
    /\ \E i \in Idx("CompleteMultipartUpload") :
           calls[i].UploadId = "u2" /\ calls[i].Bucket = "b" /\ calls[i].Key = "k"

\* C19: while an UploadPart call is in flight nothing is read: the step that
\* follows is the return of that call, which leaves the buffer, its length n
\* and the file offset as they were and has sent the bytes that were read
\* for this part.
C19_NoReadWhileUploadInFlight ==
    [][pc = "inflight" =>
           /\ buffer' = buffer
           /\ n' = n
           /\ cursor' = cursor
           /\ pc' \in {"read", "abort"}
           /\ Len(calls') = Len(calls) + 1
           /\ calls'[Len(calls')].op = "UploadPart"
           /\ calls'[Len(calls')].Body = SubSeq(file, cursor - n + 1, cursor)]_vars

C19_Witness ==
    /\ pc = "inflight"
    /\ partNum = 2
    /\ cursor < Len(file)

\* C20: every run ends, and the part loop is bounded by the file: a read that
\* leads to an upload moves the file offset forward by at least one byte and
\* not past the end of the file, and a read with nothing left to read (or an
\* empty buffer) leads to no upload.
C20_RunTerminates ==
    /\ <>Ended
    /\ [][(pc = "read" /\ pc' = "upload") =>
              (cursor' > cursor /\ cursor' <= Len(file))]_vars
    /\ [][(pc = "read" /\ (cursor = Len(file) \/ Len(buffer) = 0)) =>
              pc' # "upload"]_vars

C20_Witness ==
    /\ exit = "returned"
    /\ Cardinality(Idx("UploadPart")) = 3
    /\ cursor = Len(file)

====
